---- MODULE Spec2Model ----
(***************************************************************************)
(* Model of overlap_map_bed_generator (GenerateBed): the pipeline that     *)
(* turns a gene annotation table, a chromosome-length index and a probe    *)
(* table into the BED file of regions to mask.  One action per pipeline    *)
(* stage called from GenerateBed.__init__; the stages' tables are the      *)
(* state.  The external tools the stages call (awk, sort, bedtools         *)
(* complement, bedtools intersect, the SQL join) are modelled by what      *)
(* those commands compute on the files the code hands them.                *)
(***************************************************************************)
EXTENDS Integers, Sequences, FiniteSets, TLC

VARIABLES
    pc,                              \* the stage of __init__ about to run
    num_probes,                      \* self.num_probes
    fai,                             \* data/genome.fa.fai (rows)
    genes_aed,                       \* rows of the Genes.aed file
    probes_bed,                      \* rows of the probes BED file, in file order
    files,                           \* files present in outdir
    grch38_genome_file,              \* content of grch38.genome
    coding_regions_bed,              \* content of coding_regions_bed.bed
    coding_regions_bed_sorted,       \* content of coding_regions_bed_sorted.bed
    noncoding_regions_df,            \* self.noncoding_regions_df
    noncoding_probes_df,             \* self.noncoding_probes_df
    probes_within_regions,           \* local of get_regions_to_mask
    filtered_probes_within_regions,  \* local of get_regions_to_mask
    filtered_probes_by_distance,     \* local of get_regions_to_mask
    regions_to_mask_df,              \* self.regions_to_mask_df
    probes_to_mask_bed,              \* lines of probes_to_mask.bed (<<>>: not written)
    raised,                          \* <<stage, exception>> that ended the run, or <<>>
    first_output,                    \* probes_to_mask.bed as an earlier run left it
    paths                            \* what the path arguments name on disk

vars == <<pc, num_probes, fai, genes_aed, probes_bed, files, grch38_genome_file,
          coding_regions_bed, coding_regions_bed_sorted, noncoding_regions_df,
          noncoding_probes_df, probes_within_regions,
          filtered_probes_within_regions, filtered_probes_by_distance,
          regions_to_mask_df, probes_to_mask_bed, raised, first_output, paths>>

(***************************************************************************)
(* Bounds of the model.                                                    *)
(***************************************************************************)
MaxPos == 3         \* length of chr2 in the small genome
MaxRecords == 2     \* annotation rows of a small annotation table
MaxProbeLen == 2    \* stop - start of a probe of the small probe table
MaxNumProbes == 2   \* largest --num_probes
MaxDropped == 3     \* probes left out of the twelve-probe layout

Min(a, b) == IF a < b THEN a ELSE b
Max(a, b) == IF a > b THEN a ELSE b

RECURSIVE SubsetsUpTo(_, _)
SubsetsUpTo(S, k) ==
    IF k = 0 THEN {{}}
    ELSE LET P == SubsetsUpTo(S, k - 1)
         IN  P \cup {A \cup {x} : A \in P, x \in S}

Range(s) == {s[i] : i \in 1..Len(s)}

\* Lexicographic order on tuples of integers of one length.
RECURSIVE TupleLess(_, _)
TupleLess(a, b) ==
    /\ a # <<>>
    /\ \/ Head(a) < Head(b)
       \/ Head(a) = Head(b) /\ TupleLess(Tail(a), Tail(b))

\* Stable sort of the sequence s in ascending order of key[row], key a
\* function from rows to tuples of integers.
RECURSIVE InsertByKey(_, _, _)
InsertByKey(x, s, key) ==
    IF s = <<>> THEN <<x>>
    ELSE IF TupleLess(key[Head(s)], key[x])
         THEN <<Head(s)>> \o InsertByKey(x, Tail(s), key)
         ELSE <<x>> \o s

RECURSIVE SortByKey(_, _)
SortByKey(s, key) ==
    IF s = <<>> THEN <<>>
    ELSE InsertByKey(Head(s), SortByKey(Tail(s), key), key)

\* The elements of the set S as a sequence, in an order fixed by S.
RECURSIVE SetToSeq(_)
SetToSeq(S) ==
    IF S = {} THEN <<>>
    ELSE LET m == CHOOSE x \in S : TRUE IN <<m>> \o SetToSeq(S \ {m})

(***************************************************************************)
(* Names and strings.  TLC cannot look inside a string, so a text the code *)
(* searches, orders or builds is a tuple of one-character strings.         *)
(***************************************************************************)
Chr2 == "chr2"
Chr10 == "chr10"

\* The digits that follow "chr" in a chromosome name.
ChrDigits(c) == IF c = Chr2 THEN <<2>> ELSE <<1, 0>>

RECURSIVE DigitsValue(_)
DigitsValue(d) ==
    IF d = <<>> THEN 0 ELSE 10 * DigitsValue(SubSeq(d, 1, Len(d) - 1)) + d[Len(d)]

\* Python's and pandas' order of str: character by character, a proper
\* prefix first.
RECURSIVE LexLess(_, _)
LexLess(a, b) ==
    /\ b # <<>>
    /\ \/ a = <<>>
       \/ Head(a) < Head(b)
       \/ Head(a) = Head(b) /\ LexLess(Tail(a), Tail(b))

\* Rank of a chromosome name in `sort -V` and in natsort.humansorted: the
\* number in the name counts as a number.
ChrNaturalRank(c) == DigitsValue(ChrDigits(c))

\* Rank of a chromosome name in the order of str.
ChrLexRank(c) == Cardinality({d \in {Chr2, Chr10} : LexLess(ChrDigits(d), ChrDigits(c))})

Genes == {"g1", "g2"}
GeneRank(g) == IF g = "g1" THEN 1 ELSE 2
\* The strand a gene lies on.
GeneStrand(g) == IF g = "g1" THEN "+" ELSE "-"

RefseqCoding == <<"r", "e", "f", "s", "e", "q", "/", "c", "o", "d", "i", "n", "g">>
RefseqNoncoding ==
    <<"r", "e", "f", "s", "e", "q", "/", "n", "o", "n", "c", "o", "d", "i", "n", "g">>

\* Series.str.contains(pat) for a pattern without regex metacharacters.
StrContains(text, pat) ==
    \E i \in 0..(Len(text) - Len(pat)) : SubSeq(text, i + 1, i + Len(pat)) = pat

DigitChars == <<"0", "1", "2", "3", "4", "5", "6", "7", "8", "9">>

\* astype(str) of an integer.
RECURSIVE IntToStr(_)
IntToStr(n) ==
    IF n < 0 THEN <<"-">> \o IntToStr(0 - n)
    ELSE IF n < 10 THEN <<DigitChars[n + 1]>>
    ELSE IntToStr(n \div 10) \o <<DigitChars[(n % 10) + 1]>>

(***************************************************************************)
(* Table helpers.                                                          *)
(***************************************************************************)
RECURSIVE Concat(_)
Concat(ss) == IF ss = <<>> THEN <<>> ELSE Head(ss) \o Concat(Tail(ss))

SetMin(S) == CHOOSE x \in S : \A y \in S : x <= y
SetMax(S) == CHOOSE x \in S : \A y \in S : x >= y

\* DataFrame.drop_duplicates(): of the rows that agree on proj, the first stays.
DropDuplicates(s, proj) ==
    LET RECURSIVE From(_)
        From(i) ==
            IF i > Len(s) THEN <<>>
            ELSE (IF \E j \in 1..(i - 1) : proj[s[j]] = proj[s[i]]
                  THEN <<>> ELSE <<s[i]>>) \o From(i + 1)
    IN  From(1)

\* Python's s[a:b] on a sequence of length n: the bounds of the slice.
PySliceBound(i, n) == IF i < 0 THEN Max(n + i, 0) ELSE Min(i, n)

\* DataFrame.iloc[a:b].
Iloc(s, a, b) ==
    LET lo == PySliceBound(a, Len(s))
        hi == PySliceBound(b, Len(s))
    IN  IF lo < hi THEN SubSeq(s, lo + 1, hi) ELSE <<>>

\* groupby(["Start", "Stop", "Chr"]): the keys in the order groupby visits
\* them (sorted, Chr as str), and the rows of one key in frame order.
RegionKey(row) == [Start |-> row.Start, Stop |-> row.Stop, Chr |-> row.Chr]

GroupKeys(df) ==
    LET keys == {RegionKey(row) : row \in Range(df)}
    IN  SortByKey(SetToSeq(keys),
                  [k \in keys |-> <<k.Start, k.Stop, ChrLexRank(k.Chr)>>])

Group(df, k) == SelectSeq(df, LAMBDA row : RegionKey(row) = k)

(***************************************************************************)
(* The stages, as functions of the tables they read.                       *)
(***************************************************************************)
\* awk '{print $1,$2}' genome.fa.fai: the name and length columns.
GenomeFile(fai_rows) ==
    [i \in 1..Len(fai_rows) |-> [Chr |-> fai_rows[i].Chr, Len |-> fai_rows[i].Len]]

\* Variant of SwapNegativeStrand: no row is changed.
SwapNoStrand(row) == row

\* get_coding_regions_bed: a row of strand "-" gets Start and Stop exchanged.
SwapNegativeStrand(row) ==
    IF row.strand = "-"
    THEN [row EXCEPT !.Start = row.Stop, !.Stop = row.Start]
    ELSE row

\* Variant of filter_to_coding_regions: the pattern is "coding".
FilterByCodingSubstring(regions_df) ==
    LET kept    == SelectSeq(regions_df,
                             LAMBDA r : StrContains(r.category,
                                                    <<"c", "o", "d", "i", "n", "g">>))
        dropped == [i \in 1..Len(kept) |->
                       [name |-> kept[i].name, Chr |-> kept[i].Chr,
                        Start |-> kept[i].Start, Stop |-> kept[i].Stop]]
        sorted  == SortByKey(dropped,
                             [r \in Range(dropped) |-> <<GeneRank(r.name)>>])
    IN  DropDuplicates(sorted,
                       [r \in Range(sorted) |-> <<r.Chr, r.Start, r.Stop>>])

\* filter_to_coding_regions: the rows whose category matches, without the
\* category and strand columns, ordered by name, duplicates dropped (name is
\* the index, so rows are duplicates when Chr, Start and Stop agree).
filter_to_coding_regions(regions_df) ==
    LET kept    == SelectSeq(regions_df,
                             LAMBDA r : StrContains(r.category, RefseqCoding))
        dropped == [i \in 1..Len(kept) |->
                       [name |-> kept[i].name, Chr |-> kept[i].Chr,
                        Start |-> kept[i].Start, Stop |-> kept[i].Stop]]
        sorted  == SortByKey(dropped,
                             [r \in Range(dropped) |-> <<GeneRank(r.name)>>])
    IN  DropDuplicates(sorted,
                       [r \in Range(sorted) |-> <<r.Chr, r.Start, r.Stop>>])

\* condense_regions, up to to_csv: one row per (name, Chr) group, in the
\* order of the group keys, with the smallest Start and the largest Stop.
CondensedBed(coding_regions_df) ==
    LET keys == {<<r.name, r.Chr>> : r \in Range(coding_regions_df)}
        rows(k) == {r \in Range(coding_regions_df) : r.name = k[1] /\ r.Chr = k[2]}
        order == SortByKey(SetToSeq(keys),
                           [k \in keys |-> <<GeneRank(k[1]), ChrLexRank(k[2])>>])
    IN  [i \in 1..Len(order) |->
            [Chr   |-> order[i][2],
             Start |-> SetMin({r.Start : r \in rows(order[i])}),
             Stop  |-> SetMax({r.Stop : r \in rows(order[i])})]]

\* Variant of SortBed: the first key in the order of str (sort -k1,1).
SortBedLexical(bed) ==
    SortByKey(bed, [r \in Range(bed) |-> <<ChrLexRank(r.Chr), r.Start, r.Stop>>])

\* sort -k1,1V -k2,2n -k3,3n
SortBed(bed) ==
    SortByKey(bed, [r \in Range(bed) |-> <<ChrNaturalRank(r.Chr), r.Start, r.Stop>>])

\* Variant of ComplementSweep: the covered prefix ends where the interval
\* read last ends, also when an earlier interval ends later.
RECURSIVE ComplementSweepNoMerge(_, _, _, _)
ComplementSweepNoMerge(chr, ivs, cur, len) ==
    IF ivs = <<>>
    THEN IF cur < len THEN <<[Chr |-> chr, Start |-> cur, Stop |-> len]>> ELSE <<>>
    ELSE (IF Head(ivs).Start > cur
          THEN <<[Chr |-> chr, Start |-> cur, Stop |-> Head(ivs).Start]>>
          ELSE <<>>)
         \o ComplementSweepNoMerge(chr, Tail(ivs), Head(ivs).Stop, len)

\* Variant of ComplementSweep: the gaps come out last first.
RECURSIVE ComplementSweepReversed(_, _, _, _)
ComplementSweepReversed(chr, ivs, cur, len) ==
    IF ivs = <<>>
    THEN IF cur < len THEN <<[Chr |-> chr, Start |-> cur, Stop |-> len]>> ELSE <<>>
    ELSE ComplementSweepReversed(chr, Tail(ivs), Max(cur, Head(ivs).Stop), len)
         \o (IF Head(ivs).Start > cur
             THEN <<[Chr |-> chr, Start |-> cur, Stop |-> Head(ivs).Start]>>
             ELSE <<>>)

\* bedtools complement on one chromosome: ivs are its intervals in file
\* order, cur the end of what the intervals read so far cover.
RECURSIVE ComplementSweep(_, _, _, _)
ComplementSweep(chr, ivs, cur, len) ==
    IF ivs = <<>>
    THEN IF cur < len THEN <<[Chr |-> chr, Start |-> cur, Stop |-> len]>> ELSE <<>>
    ELSE (IF Head(ivs).Start > cur
          THEN <<[Chr |-> chr, Start |-> cur, Stop |-> Head(ivs).Start]>>
          ELSE <<>>)
         \o ComplementSweep(chr, Tail(ivs), Max(cur, Head(ivs).Stop), len)

\* Variant of BedtoolsComplement: only the chromosomes that have a record
\* in bed are reported.
BedtoolsComplementLimited(bed, genome) ==
    Concat([i \in 1..Len(genome) |->
               IF \E j \in 1..Len(bed) : bed[j].Chr = genome[i].Chr
               THEN ComplementSweep(genome[i].Chr,
                                    SelectSeq(bed, LAMBDA r : r.Chr = genome[i].Chr),
                                    0, genome[i].Len)
               ELSE <<>>])

\* bedtools complement -i bed -g genome: per chromosome of the genome file,
\* in its order, the parts of [0, Len) no interval of bed covers.
BedtoolsComplement(bed, genome) ==
    Concat([i \in 1..Len(genome) |->
               ComplementSweep(genome[i].Chr,
                               SelectSeq(bed, LAMBDA r : r.Chr = genome[i].Chr),
                               0, genome[i].Len)])

\* Variant of BedtoolsIntersect: every row of a, whole.
BedtoolsIntersectAll(a, b) == a

\* bedtools intersect -a a -b b: per row of a and per row of b that
\* overlaps it, the row of a cut down to the overlap.
BedtoolsIntersect(a, b) ==
    LET hits(p) == SelectSeq(b, LAMBDA r :
                       r.Chr = p.Chr /\ Max(p.Start, r.Start) < Min(p.Stop, r.Stop))
        cut(p, r) == [Chr |-> p.Chr, Start |-> Max(p.Start, r.Start),
                      Stop |-> Min(p.Stop, r.Stop), Probe |-> p.Probe]
    IN  Concat([i \in 1..Len(a) |->
                   [j \in 1..Len(hits(a[i])) |-> cut(a[i], hits(a[i])[j])]])

\* Variant of ReadNoncodingProbes: the third column kept as the position.
ReadNoncodingProbesByStop(lines) ==
    [i \in 1..Len(lines) |->
        [Chr |-> lines[i].Chr, Pos |-> lines[i].Stop, Probe |-> lines[i].Probe]]

\* get_noncoding_probes, after the intersect: the columns are read as Chr,
\* Pos, Stop, Probe and Stop is dropped.
ReadNoncodingProbes(lines) ==
    [i \in 1..Len(lines) |->
        [Chr |-> lines[i].Chr, Pos |-> lines[i].Start, Probe |-> lines[i].Probe]]

\* Variant of JoinProbesToRegions: the join without its ON condition.
JoinProbesToRegionsAnyChr(probes_df, regions_df) ==
    Concat([i \in 1..Len(probes_df) |->
        LET p == probes_df[i]
            m == SelectSeq(regions_df, LAMBDA r : p.Pos >= r.Start /\ p.Pos <= r.Stop)
        IN  [j \in 1..Len(m) |->
                [Start |-> m[j].Start, Stop |-> m[j].Stop, Chr |-> p.Chr,
                 Probe |-> p.Probe, Pos |-> p.Pos]]])

\* match_probes_to_regions: the SQL join (the WHERE clause leaves the pairs
\* of a probe and a region of its chromosome with Start <= Pos <= Stop), then
\* per (Start, Stop, Chr) group the rows ordered by Pos; the frame that
\* results has the index (Start, Stop, Chr, Probe) and the column Pos.
JoinProbesToRegions(probes_df, regions_df) ==
    Concat([i \in 1..Len(probes_df) |->
        LET p == probes_df[i]
            m == SelectSeq(regions_df, LAMBDA r :
                     p.Chr = r.Chr /\ p.Pos >= r.Start /\ p.Pos <= r.Stop)
        IN  [j \in 1..Len(m) |->
                [Start |-> m[j].Start, Stop |-> m[j].Stop, Chr |-> p.Chr,
                 Probe |-> p.Probe, Pos |-> p.Pos]]])

\* Variant of SortGroupByPos: the rows of a group as the join gave them.
GroupInJoinOrder(rows) == rows

SortGroupByPos(rows) == SortByKey(rows, [r \in Range(rows) |-> <<r.Pos>>])

match_probes_to_regions(probes_df, regions_df) ==
    LET joined == JoinProbesToRegions(probes_df, regions_df)
        keys   == GroupKeys(joined)
    IN  Concat([i \in 1..Len(keys) |-> SortGroupByPos(Group(joined, keys[i]))])

\* remove_regions: the rows of the groups with at least 2 * num_probes rows.
remove_regions(df, n) ==
    LET min_region_size == 2 * n
    IN  SelectSeq(df, LAMBDA row : Len(Group(df, RegionKey(row))) >= min_region_size)

\* Variant of TrimGroup: n rows dropped at each end, as the docstring of
\* get_regions_to_mask has it.
TrimGroupByNumProbes(x, n) == Iloc(x, n, 0 - n)

\* remove_probes_by_distance: per group, x.iloc[(n-1):-(n-1)].
TrimGroup(x, n) == Iloc(x, n - 1, 0 - (n - 1))

remove_probes_by_distance(df, n) ==
    LET keys == GroupKeys(df)
    IN  Concat([i \in 1..Len(keys) |-> TrimGroup(Group(df, keys[i]), n)])

\* Variant of AggregateRegions: the ends of the non-coding region instead of
\* the ends of its retained probes.
AggregateRegionsByBounds(df) ==
    LET keys == GroupKeys(df)
    IN  [i \in 1..Len(keys) |->
            [Chr          |-> keys[i].Chr,
             region_start |-> keys[i].Start,
             region_stop  |-> keys[i].Stop]]

\* get_regions_to_mask, after the trimming: per group the smallest and the
\* largest Pos, Start and Stop dropped, duplicates dropped, the Range label
\* added, the rows ordered by chromosome (natsort, stable).
AggregateRegions(df) ==
    LET keys == GroupKeys(df)
    IN  [i \in 1..Len(keys) |->
            [Chr          |-> keys[i].Chr,
             region_start |-> SetMin({r.Pos : r \in Range(Group(df, keys[i]))}),
             region_stop  |-> SetMax({r.Pos : r \in Range(Group(df, keys[i]))})]]

RangeLabel(region_start, region_stop) ==
    IntToStr(region_start) \o <<"-">> \o IntToStr(region_stop)

\* Variant of HumanSorted: the order of str, "chr10" before "chr2".
HumanSortedAsStr(df) == SortByKey(df, [r \in Range(df) |-> <<ChrLexRank(r.Chr)>>])

\* natsort.index_humansorted on the Chr column: a stable sort, the number in
\* a name counted as a number.
HumanSorted(df) == SortByKey(df, [r \in Range(df) |-> <<ChrNaturalRank(r.Chr)>>])

RegionsToMask(df) ==
    LET agg     == AggregateRegions(df)
        deduped == DropDuplicates(agg, [r \in Range(agg) |-> r])
        labelled == [i \in 1..Len(deduped) |->
                        [Chr          |-> deduped[i].Chr,
                         region_start |-> deduped[i].region_start,
                         region_stop  |-> deduped[i].region_stop,
                         Range        |-> RangeLabel(deduped[i].region_start,
                                                     deduped[i].region_stop)]]
    IN  HumanSorted(labelled)

\* write_to_final_csv: the track line, then the rows.
TrackLine == "track db=\"hg38\""

FinalCsv(df) ==
    <<TrackLine>> \o
    [i \in 1..Len(df) |-> <<df[i].Chr, df[i].region_start, df[i].region_stop, df[i].Range>>]

\* Variant of WriteFinalCsv: the file opened for appending.
WriteFinalCsvAppending(existing, df) == existing \o FinalCsv(df)

\* write_to_final_csv on a file that holds the lines existing: open(.., 'w')
\* empties it before the track line and the rows are written.
WriteFinalCsv(existing, df) == FinalCsv(df)

IntermediateFiles ==
    {"coding_regions_bed.bed", "coding_regions_bed_sorted.bed",
     "noncoding_regions_bed.bed", "non_coding_probes.bed", "grch38.genome"}

\* Variant of CleanupList: the intermediate BED files only, as the
\* docstring of cleanup_intermediate_files has it.
CleanupListBedOnly ==
    <<"coding_regions_bed.bed", "coding_regions_bed_sorted.bed",
      "noncoding_regions_bed.bed", "non_coding_probes.bed">>

\* cleanup_intermediate_files: the files the loop removes, in its order.
CleanupList ==
    <<"coding_regions_bed.bed", "coding_regions_bed_sorted.bed",
      "noncoding_regions_bed.bed", "non_coding_probes.bed", "grch38.genome">>

(***************************************************************************)
(* The inputs.  Three families: small tables over a two-chromosome genome, *)
(* a twelve-probe layout on one chromosome of length 1000 with one coding  *)
(* gene [100, 200), and eight probes on each of two chromosomes of length  *)
(* 100.  An annotation row stores directional coordinates, Start > Stop on *)
(* strand "-", but for one row of the small tables that stores a strand    *)
(* "-" record the other way round.  Every annotation table holds a coding  *)
(* row, every interval lies inside its chromosome.                         *)
(***************************************************************************)
AedRow(chr, lo, hi, g, cat) ==
    [Chr      |-> chr,
     Start    |-> IF GeneStrand(g) = "-" THEN hi ELSE lo,
     Stop     |-> IF GeneStrand(g) = "-" THEN lo ELSE hi,
     name     |-> g,
     strand   |-> GeneStrand(g),
     category |-> cat]

SmallFai ==
    <<[Chr |-> Chr2, Len |-> MaxPos, Offset |-> 6],
      [Chr |-> Chr10, Len |-> 1, Offset |-> 16]>>

SmallIntervals ==
    {t \in {Chr2} \X (0..MaxPos) \X (0..MaxPos) : t[2] < t[3]}
    \cup {<<Chr10, 0, 1>>}

SmallCodingRows ==
    {AedRow(t[1], t[2], t[3], g, RefseqCoding) : t \in SmallIntervals, g \in Genes}

\* Rows of another category span their chromosome.
SmallOtherRows ==
    {AedRow(Chr2, 0, MaxPos, g, RefseqNoncoding) : g \in Genes}
    \cup {AedRow(Chr10, 0, 1, g, RefseqNoncoding) : g \in Genes}

\* A row of strand "-" that stores Start < Stop.
SmallMisdirectedRows ==
    {[Chr |-> Chr2, Start |-> 0, Stop |-> 1, name |-> "g2", strand |-> "-",
      category |-> RefseqCoding]}

SmallAnnotations ==
    {A \in SubsetsUpTo(SmallCodingRows \cup SmallOtherRows \cup SmallMisdirectedRows,
                       MaxRecords) :
        A \cap (SmallCodingRows \cup SmallMisdirectedRows) # {}}

SmallProbes ==
    {p \in [Chr : {Chr2}, Start : 0..MaxPos, Stop : 0..MaxPos, Probe : {1}] :
        p.Start < p.Stop /\ p.Stop - p.Start <= MaxProbeLen}
    \cup {[Chr |-> Chr10, Start |-> 0, Stop |-> 1, Probe |-> 1]}

SmallProbeTables == {<<>>} \cup {<<p>> : p \in SmallProbes}

LayoutFai == <<[Chr |-> Chr2, Len |-> 1000, Offset |-> 6]>>

LayoutPositions == <<10, 20, 30, 40, 50, 250, 260, 270, 280, 290, 990, 995>>

LayoutProbe(i) ==
    [Chr |-> Chr2, Start |-> LayoutPositions[i], Stop |-> LayoutPositions[i] + 1,
     Probe |-> i]

\* A probe on the first base of the coding gene.
BoundaryProbe == [Chr |-> Chr2, Start |-> 100, Stop |-> 101, Probe |-> 0]

Reverse(s) == [i \in 1..Len(s) |-> s[Len(s) + 1 - i]]

\* The layout without at most MaxDropped of its probes, with or without the
\* boundary probe, the file in ascending or in descending order of position.
LayoutProbeTables ==
    LET kept(D) == {LayoutProbe(i) : i \in (1..Len(LayoutPositions)) \ D}
        table(S) == SortByKey(SetToSeq(S), [q \in S |-> <<q.Start>>])
    IN  UNION {{table(kept(D) \cup E), Reverse(table(kept(D) \cup E))} :
                  D \in SubsetsUpTo(1..Len(LayoutPositions), MaxDropped),
                  E \in {{}, {BoundaryProbe}}}

\* Two chromosomes of length 100, a coding gene [50, 60) on chr2 and, in one
\* annotation, another on chr10; eight probes on each chromosome.
PairFai ==
    <<[Chr |-> Chr2, Len |-> 100, Offset |-> 6],
      [Chr |-> Chr10, Len |-> 100, Offset |-> 112]>>

PairAnnotations ==
    {{AedRow(Chr2, 50, 60, "g1", RefseqCoding)},
     {AedRow(Chr2, 50, 60, "g1", RefseqCoding),
      AedRow(Chr10, 50, 60, "g2", RefseqCoding)}}

PairPositions == <<10, 20, 30, 40, 70, 80, 90, 95>>

PairProbes(chr) ==
    [i \in 1..Len(PairPositions) |->
        [Chr |-> chr, Start |-> PairPositions[i], Stop |-> PairPositions[i] + 1,
         Probe |-> IF chr = Chr2 THEN i ELSE Len(PairPositions) + i]]

PairProbeTables ==
    {PairProbes(Chr2) \o PairProbes(Chr10), PairProbes(Chr10) \o PairProbes(Chr2),
     Reverse(PairProbes(Chr2) \o PairProbes(Chr10)),
     PairProbes(Chr2), PairProbes(Chr10),
     SubSeq(PairProbes(Chr2), 1, 4) \o PairProbes(Chr10)}

NumProbesValues == (0 - 1)..MaxNumProbes

InitSmall ==
    /\ fai = SmallFai
    /\ genes_aed \in SmallAnnotations
    /\ probes_bed \in SmallProbeTables
    /\ num_probes \in {0, 1}

InitLayout ==
    /\ fai = LayoutFai
    /\ genes_aed = {AedRow(Chr2, 100, 200, "g1", RefseqCoding)}
    /\ probes_bed \in LayoutProbeTables
    /\ num_probes \in NumProbesValues

InitPair ==
    /\ fai = PairFai
    /\ genes_aed \in PairAnnotations
    /\ probes_bed \in PairProbeTables
    /\ num_probes \in NumProbesValues

Init ==
    /\ InitSmall \/ InitLayout \/ InitPair
    /\ pc = "get_genome_file"
    /\ files = {}
    /\ grch38_genome_file = <<>>
    /\ coding_regions_bed = <<>>
    /\ coding_regions_bed_sorted = <<>>
    /\ noncoding_regions_df = <<>>
    /\ noncoding_probes_df = <<>>
    /\ probes_within_regions = <<>>
    /\ filtered_probes_within_regions = <<>>
    /\ filtered_probes_by_distance = <<>>
    /\ regions_to_mask_df = <<>>
    /\ probes_to_mask_bed = <<>>
    /\ raised = <<>>
    /\ first_output = <<>>
    /\ paths = [outdir |-> "dir", genes_aed |-> "file", probes_bed |-> "file"]

(***************************************************************************)
(* The stages of GenerateBed.__init__, in its order.  A stage that raises  *)
(* ends the run (pc = "failed").                                           *)
(***************************************************************************)
\* Variant of StageAfter: the output is written once the coding regions
\* are there, before the stages that can raise.
StageAfterWriteEarly(stage) ==
    CASE stage = "get_genome_file"            -> "get_coding_regions_bed"
      [] stage = "get_coding_regions_bed"     -> "write_to_final_csv"
      [] stage = "write_to_final_csv"         -> "get_noncoding_regions_bed"
      [] stage = "get_noncoding_regions_bed"  -> "get_noncoding_probes"
      [] stage = "get_noncoding_probes"       -> "get_regions_to_mask"
      [] stage = "get_regions_to_mask"        -> "cleanup_intermediate_files"
      [] stage = "cleanup_intermediate_files" -> "done"

\* The stage __init__ calls after the given one.
StageAfter(stage) ==
    CASE stage = "get_genome_file"            -> "get_coding_regions_bed"
      [] stage = "get_coding_regions_bed"     -> "get_noncoding_regions_bed"
      [] stage = "get_noncoding_regions_bed"  -> "get_noncoding_probes"
      [] stage = "get_noncoding_probes"       -> "get_regions_to_mask"
      [] stage = "get_regions_to_mask"        -> "cleanup_intermediate_files"
      [] stage = "cleanup_intermediate_files" -> "write_to_final_csv"
      [] stage = "write_to_final_csv"         -> "done"

\* bedtools ends with an error on a record whose start lies after its end;
\* subprocess.run(check=True) then raises CalledProcessError.
InvalidRecord(r) == r.Start > r.Stop

get_genome_file ==
    /\ pc = "get_genome_file"
    /\ grch38_genome_file' = GenomeFile(fai)
    /\ files' = files \cup {"grch38.genome"}
    /\ pc' = StageAfter(pc)
    /\ UNCHANGED <<paths, first_output, raised, num_probes, fai, genes_aed, probes_bed, coding_regions_bed,
                   coding_regions_bed_sorted, noncoding_regions_df,
                   noncoding_probes_df, probes_within_regions,
                   filtered_probes_within_regions, filtered_probes_by_distance,
                   regions_to_mask_df, probes_to_mask_bed>>

get_coding_regions_bed ==
    /\ pc = "get_coding_regions_bed"
    /\ LET rows == SetToSeq(genes_aed)
           regions_df == [i \in 1..Len(rows) |-> SwapNegativeStrand(rows[i])]
           coding_regions_df == filter_to_coding_regions(regions_df)
       IN  /\ coding_regions_bed' = CondensedBed(coding_regions_df)
           /\ coding_regions_bed_sorted' = SortBed(CondensedBed(coding_regions_df))
    /\ files' = files \cup {"coding_regions_bed.bed", "coding_regions_bed_sorted.bed"}
    /\ pc' = StageAfter(pc)
    /\ UNCHANGED <<paths, first_output, raised, num_probes, fai, genes_aed, probes_bed, grch38_genome_file,
                   noncoding_regions_df, noncoding_probes_df, probes_within_regions,
                   filtered_probes_within_regions, filtered_probes_by_distance,
                   regions_to_mask_df, probes_to_mask_bed>>

\* read_csv raises EmptyDataError on a file without a line.
get_noncoding_regions_bed ==
    /\ pc = "get_noncoding_regions_bed"
    /\ LET out == BedtoolsComplement(coding_regions_bed_sorted, grch38_genome_file)
       IN  IF \E r \in Range(coding_regions_bed_sorted) : InvalidRecord(r)
           THEN /\ pc' = "failed"
                /\ raised' = <<pc, "CalledProcessError">>
                /\ UNCHANGED noncoding_regions_df
           ELSE IF out = <<>>
           THEN /\ pc' = "failed"
                /\ raised' = <<pc, "EmptyDataError">>
                /\ UNCHANGED noncoding_regions_df
           ELSE /\ pc' = StageAfter(pc)
                /\ noncoding_regions_df' = out
                /\ UNCHANGED raised
    /\ files' = files \cup {"noncoding_regions_bed.bed"}
    /\ UNCHANGED <<paths, first_output, num_probes, fai, genes_aed, probes_bed, grch38_genome_file,
                   coding_regions_bed, coding_regions_bed_sorted,
                   noncoding_probes_df, probes_within_regions,
                   filtered_probes_within_regions, filtered_probes_by_distance,
                   regions_to_mask_df, probes_to_mask_bed>>

get_noncoding_probes ==
    /\ pc = "get_noncoding_probes"
    /\ LET out == BedtoolsIntersect(probes_bed, noncoding_regions_df)
       IN  IF out = <<>>
           THEN /\ pc' = "failed"
                /\ raised' = <<pc, "EmptyDataError">>
                /\ UNCHANGED noncoding_probes_df
           ELSE /\ pc' = StageAfter(pc)
                /\ noncoding_probes_df' = ReadNoncodingProbes(out)
                /\ UNCHANGED raised
    /\ files' = files \cup {"non_coding_probes.bed"}
    /\ UNCHANGED <<paths, first_output, num_probes, fai, genes_aed, probes_bed, grch38_genome_file,
                   coding_regions_bed, coding_regions_bed_sorted,
                   noncoding_regions_df, probes_within_regions,
                   filtered_probes_within_regions, filtered_probes_by_distance,
                   regions_to_mask_df, probes_to_mask_bed>>

get_regions_to_mask ==
    /\ pc = "get_regions_to_mask"
    /\ probes_within_regions' =
           match_probes_to_regions(noncoding_probes_df, noncoding_regions_df)
    /\ filtered_probes_within_regions' =
           remove_regions(probes_within_regions', num_probes)
    /\ filtered_probes_by_distance' =
           remove_probes_by_distance(filtered_probes_within_regions', num_probes)
    /\ regions_to_mask_df' = RegionsToMask(filtered_probes_by_distance')
    /\ pc' = StageAfter(pc)
    /\ UNCHANGED <<paths, first_output, raised, num_probes, fai, genes_aed, probes_bed, files,
                   grch38_genome_file, coding_regions_bed,
                   coding_regions_bed_sorted, noncoding_regions_df,
                   noncoding_probes_df, probes_to_mask_bed>>

\* os.remove raises OSError when the file system refuses a removal (and
\* FileNotFoundError, an OSError, when the file is not there); the loop
\* then ends with the files before that one removed.
cleanup_intermediate_files ==
    /\ pc = "cleanup_intermediate_files"
    /\ \E k \in 0..Len(CleanupList) :
           /\ files' = files \ {CleanupList[i] : i \in 1..k}
           /\ IF k = Len(CleanupList) /\ Range(CleanupList) \subseteq files
              THEN /\ pc' = StageAfter(pc)
                   /\ UNCHANGED raised
              ELSE /\ k < Len(CleanupList)
                   /\ pc' = "failed"
                   /\ raised' = <<pc, "OSError">>
    /\ UNCHANGED <<paths, first_output, num_probes, fai, genes_aed, probes_bed, grch38_genome_file,
                   coding_regions_bed, coding_regions_bed_sorted,
                   noncoding_regions_df, noncoding_probes_df,
                   probes_within_regions, filtered_probes_within_regions,
                   filtered_probes_by_distance, regions_to_mask_df,
                   probes_to_mask_bed>>

write_to_final_csv ==
    /\ pc = "write_to_final_csv"
    /\ probes_to_mask_bed' = WriteFinalCsv(probes_to_mask_bed, regions_to_mask_df)
    /\ files' = files \cup {"probes_to_mask.bed"}
    /\ pc' = StageAfter(pc)
    /\ UNCHANGED <<paths, first_output, raised, num_probes, fai, genes_aed, probes_bed, grch38_genome_file,
                   coding_regions_bed, coding_regions_bed_sorted,
                   noncoding_regions_df, noncoding_probes_df,
                   probes_within_regions, filtered_probes_within_regions,
                   filtered_probes_by_distance, regions_to_mask_df>>

Next ==
    \/ get_genome_file
    \/ get_coding_regions_bed
    \/ get_noncoding_regions_bed
    \/ get_noncoding_probes
    \/ get_regions_to_mask
    \/ cleanup_intermediate_files
    \/ write_to_final_csv

Spec == Init /\ [][Next]_vars

(***************************************************************************)
(* The entry point: arg_parse, then GenerateBed.  A path argument names a  *)
(* directory, a file or nothing.                                           *)
(***************************************************************************)
\* Variant of is_valid_dir: os.path.exists in place of os.path.isdir.
is_valid_dir_if_exists(kind) == kind # "missing"

\* is_valid_dir: os.path.isdir(arg).
is_valid_dir(kind) == kind = "dir"

\* is_valid_file: os.path.exists(arg).
is_valid_file(kind) == kind # "missing"

PathStates ==
    [outdir : {"missing", "file", "dir"}, genes_aed : {"missing", "file"},
     probes_bed : {"missing", "file"}]

\* parser.error prints the message and leaves with SystemExit, status 2.
arg_parse ==
    /\ pc = "arg_parse"
    /\ IF /\ is_valid_dir(paths.outdir)
          /\ is_valid_file(paths.genes_aed)
          /\ is_valid_file(paths.probes_bed)
       THEN /\ pc' = "get_genome_file"
            /\ UNCHANGED raised
       ELSE /\ pc' = "failed"
            /\ raised' = <<"arg_parse", "SystemExit">>
    /\ UNCHANGED <<paths, first_output, num_probes, fai, genes_aed, probes_bed, files,
                   grch38_genome_file, coding_regions_bed, coding_regions_bed_sorted,
                   noncoding_regions_df, noncoding_probes_df, probes_within_regions,
                   filtered_probes_within_regions, filtered_probes_by_distance,
                   regions_to_mask_df, probes_to_mask_bed>>

\* The contents of a file that does not exist play no part.
InitMain ==
    /\ pc = "arg_parse"
    /\ paths \in PathStates
    /\ IF paths = [outdir |-> "dir", genes_aed |-> "file", probes_bed |-> "file"]
       THEN InitSmall \/ InitPair
       ELSE /\ fai = PairFai
            /\ genes_aed = {}
            /\ probes_bed = <<>>
            /\ num_probes \in NumProbesValues
    /\ files = {}
    /\ grch38_genome_file = <<>>
    /\ coding_regions_bed = <<>>
    /\ coding_regions_bed_sorted = <<>>
    /\ noncoding_regions_df = <<>>
    /\ noncoding_probes_df = <<>>
    /\ probes_within_regions = <<>>
    /\ filtered_probes_within_regions = <<>>
    /\ filtered_probes_by_distance = <<>>
    /\ regions_to_mask_df = <<>>
    /\ probes_to_mask_bed = <<>>
    /\ raised = <<>>
    /\ first_output = <<>>

NextMain == arg_parse \/ Next

SpecMain == InitMain /\ [][NextMain]_vars

\* The program started once more, with the arguments and the outdir of a run
\* that has ended: a new GenerateBed object, the files as that run left them.
rerun ==
    /\ pc = "done"
    /\ first_output = <<>>
    /\ first_output' = probes_to_mask_bed
    /\ pc' = "get_genome_file"
    /\ grch38_genome_file' = <<>>
    /\ coding_regions_bed' = <<>>
    /\ coding_regions_bed_sorted' = <<>>
    /\ noncoding_regions_df' = <<>>
    /\ noncoding_probes_df' = <<>>
    /\ probes_within_regions' = <<>>
    /\ filtered_probes_within_regions' = <<>>
    /\ filtered_probes_by_distance' = <<>>
    /\ regions_to_mask_df' = <<>>
    /\ UNCHANGED <<paths, raised, num_probes, fai, genes_aed, probes_bed, files,
                   probes_to_mask_bed>>

NextRerun == Next \/ rerun

SpecRerun == Init /\ [][NextRerun]_vars

(***************************************************************************)
(* get_regions_to_mask on its own: match_probes_to_regions reads the two   *)
(* tables self.noncoding_probes_df and self.noncoding_regions_df, here any *)
(* probe row and any table of at most two regions of chr2, whether or not  *)
(* the earlier stages could have produced them.                            *)
(***************************************************************************)
MatchRegions ==
    {r \in [Chr : {Chr2}, Start : 0..MaxPos, Stop : 0..MaxPos] : r.Start < r.Stop}

MatchRegionTables ==
    {<<r>> : r \in MatchRegions}
    \cup {t \in MatchRegions \X MatchRegions : t[1] # t[2]}

MatchProbeTables == {<<[Chr |-> Chr2, Pos |-> p, Probe |-> 1]>> : p \in 0..MaxPos}

InitMatch ==
    /\ pc = "get_regions_to_mask"
    /\ num_probes \in {0, 1}
    /\ noncoding_regions_df \in MatchRegionTables
    /\ noncoding_probes_df \in MatchProbeTables
    /\ fai = SmallFai
    /\ genes_aed = {}
    /\ probes_bed = <<>>
    /\ files = IntermediateFiles
    /\ grch38_genome_file = GenomeFile(SmallFai)
    /\ coding_regions_bed = <<>>
    /\ coding_regions_bed_sorted = <<>>
    /\ probes_within_regions = <<>>
    /\ filtered_probes_within_regions = <<>>
    /\ filtered_probes_by_distance = <<>>
    /\ regions_to_mask_df = <<>>
    /\ probes_to_mask_bed = <<>>
    /\ raised = <<>>
    /\ first_output = <<>>
    /\ paths = [outdir |-> "dir", genes_aed |-> "file", probes_bed |-> "file"]

NextMatch == get_regions_to_mask \/ cleanup_intermediate_files \/ write_to_final_csv

SpecMatch == InitMatch /\ [][NextMatch]_vars

(***************************************************************************)
(* Properties.                                                             *)
(***************************************************************************)
\* The stages that have run.
ComplementRan ==
    /\ pc \notin {"get_genome_file", "get_coding_regions_bed", "get_noncoding_regions_bed"}
    /\ raised # <<"get_noncoding_regions_bed", "CalledProcessError">>
RegionsToMaskRan == pc \in {"cleanup_intermediate_files", "write_to_final_csv", "done"}

Regions == Range(noncoding_regions_df)
CodingIntervals == Range(coding_regions_bed_sorted)
InCoding(chr, p) ==
    \E iv \in CodingIntervals : iv.Chr = chr /\ iv.Start <= p /\ p < iv.Stop
InRegion(r, chr, p) == r.Chr = chr /\ r.Start <= p /\ p < r.Stop

\* Whether a position lies in a half-open interval changes only at the
\* interval's ends, so every position p of [0, len) lies in the same
\* intervals as the largest of these positions that is <= p.
BreakPoints(chr, len) ==
    {0} \cup {e \in {r.Start : r \in Regions \cup CodingIntervals}
                    \cup {r.Stop : r \in Regions \cup CodingIntervals} :
                 0 <= e /\ e < len}

\* C1: on every chromosome of the genome file, every position of
\* [0, length) lies in exactly one of: the non-coding regions, the union of
\* the coding intervals; and no region reaches outside [0, length).
C1_Tiling ==
    ComplementRan =>
        \A g \in Range(grch38_genome_file) :
            /\ \A p \in BreakPoints(g.Chr, g.Len) :
                   Cardinality({r \in Regions : InRegion(r, g.Chr, p)})
                       + (IF InCoding(g.Chr, p) THEN 1 ELSE 0) = 1
            /\ \A r \in Regions :
                   r.Chr = g.Chr => 0 <= r.Start /\ r.Start < r.Stop /\ r.Stop <= g.Len
            /\ Cardinality(Regions) = Len(noncoding_regions_df)

\* Two genes' coding intervals overlap and a region lies beside them.
C1_Witness ==
    /\ pc = "get_noncoding_probes"
    /\ \E i, j \in 1..Len(coding_regions_bed_sorted) :
           LET a == coding_regions_bed_sorted[i]
               b == coding_regions_bed_sorted[j]
           IN  /\ i # j /\ a.Chr = b.Chr
               /\ a.Start < b.Stop /\ b.Start < a.Stop
               /\ \E r \in Regions : r.Chr = a.Chr

\* C2: two non-coding regions of one chromosome do not overlap, and the
\* regions of a chromosome stand in ascending order of Start.
C2_RegionsDisjointSorted ==
    ComplementRan =>
        \A i, j \in 1..Len(noncoding_regions_df) :
            (i < j /\ noncoding_regions_df[i].Chr = noncoding_regions_df[j].Chr) =>
                /\ noncoding_regions_df[i].Start < noncoding_regions_df[j].Start
                /\ noncoding_regions_df[i].Stop <= noncoding_regions_df[j].Start

C2_Witness ==
    /\ pc = "get_noncoding_probes"
    /\ \E i, j \in 1..Len(noncoding_regions_df) :
           i < j /\ noncoding_regions_df[i].Chr = noncoding_regions_df[j].Chr

Assigned(k) == Group(probes_within_regions, k)
Retained(k) == Group(filtered_probes_by_distance, k)
AssignedKeys == {RegionKey(row) : row \in Range(probes_within_regions)}
RetainedKeys == {RegionKey(row) : row \in Range(filtered_probes_by_distance)}

\* C5: for every margin >= 1 and every region with L >= 2 * margin assigned
\* probes, trimming retains exactly the probes at indices margin - 1 through
\* L - margin of the position-ordered list: it drops the first margin - 1 and
\* the last margin - 1.
C5_TrimKeepsMiddle ==
    (RegionsToMaskRan /\ num_probes >= 1) =>
        \A k \in AssignedKeys :
            Len(Assigned(k)) >= 2 * num_probes =>
                Retained(k) = SubSeq(Assigned(k), num_probes,
                                     Len(Assigned(k)) - num_probes + 1)

\* C6: for every margin >= 1, a region with fewer than 2 * margin probes
\* contributes no masked region, and a region with exactly 2 * margin probes
\* yields one masked region built from exactly 2 retained probes.
C6_DiscardAndBoundary ==
    (RegionsToMaskRan /\ num_probes >= 1) =>
        \A k \in AssignedKeys :
            /\ Len(Assigned(k)) < 2 * num_probes => Retained(k) = <<>>
            /\ Len(Assigned(k)) = 2 * num_probes =>
                   /\ Len(Retained(k)) = 2
                   /\ \E m \in Range(regions_to_mask_df) :
                          /\ m.Chr = k.Chr
                          /\ m.region_start = Retained(k)[1].Pos
                          /\ m.region_stop = Retained(k)[2].Pos

\* C7: with margin 1 trimming changes nothing: every region with at least 2
\* probes keeps all of them and yields a masked region from its lowest to
\* its highest probe position.
C7_MarginOneKeepsAll ==
    (RegionsToMaskRan /\ num_probes = 1) =>
        \A k \in AssignedKeys :
            Len(Assigned(k)) >= 2 =>
                /\ Retained(k) = Assigned(k)
                /\ \E m \in Range(regions_to_mask_df) :
                       /\ m.Chr = k.Chr
                       /\ m.region_start = Assigned(k)[1].Pos
                       /\ m.region_stop = Assigned(k)[Len(Assigned(k))].Pos

ScenarioInputs ==
    /\ fai = LayoutFai
    /\ Range(probes_bed) = {LayoutProbe(i) : i \in 1..Len(LayoutPositions)}
    /\ num_probes = 2

C9_ProbesAtLeastNFromEdge ==
    (RegionsToMaskRan /\ num_probes >= 1) =>
        \A m \in Range(regions_to_mask_df) : \A k \in AssignedKeys :
            \A i \in 1..Len(Assigned(k)) :
                (/\ k.Chr = m.Chr
                 /\ m.region_start <= Assigned(k)[i].Pos
                 /\ Assigned(k)[i].Pos <= m.region_stop)
                => (i - 1 >= num_probes /\ Len(Assigned(k)) - i >= num_probes)

\* The number a string of decimal digits denotes.
RECURSIVE DecimalValue(_)
DecimalValue(str) ==
    IF str = <<>> THEN 0
    ELSE 10 * DecimalValue(SubSeq(str, 1, Len(str) - 1))
         + (CHOOSE d \in 0..9 : DigitChars[d + 1] = str[Len(str)])

\* str is the decimal numeral of n >= 0.
IsDecimalOf(str, n) ==
    /\ str # <<>>
    /\ \A i \in 1..Len(str) : str[i] \in Range(DigitChars)
    /\ Len(str) > 1 => str[1] # "0"
    /\ DecimalValue(str) = n

\* C10: every emitted masked region has as region_start the smallest and as
\* region_stop the largest position of the probes retained for one
\* non-coding region, every region with retained probes is emitted, and the
\* label is the decimal region_start, a hyphen, the decimal region_stop.
C10_MinMaxAndLabel ==
    RegionsToMaskRan =>
        /\ \A m \in Range(regions_to_mask_df) :
               /\ \E k \in RetainedKeys :
                      LET pos == {r.Pos : r \in Range(Retained(k))}
                      IN  /\ k.Chr = m.Chr
                          /\ m.region_start \in pos /\ m.region_stop \in pos
                          /\ \A x \in pos : m.region_start <= x /\ x <= m.region_stop
               /\ \E h \in 1..Len(m.Range) :
                      /\ m.Range[h] = "-"
                      /\ IsDecimalOf(SubSeq(m.Range, 1, h - 1), m.region_start)
                      /\ IsDecimalOf(SubSeq(m.Range, h + 1, Len(m.Range)), m.region_stop)
        /\ \A k \in RetainedKeys : \E m \in Range(regions_to_mask_df) :
               LET pos == {r.Pos : r \in Range(Retained(k))}
               IN  /\ k.Chr = m.Chr
                   /\ m.region_start \in pos /\ m.region_stop \in pos
                   /\ \A x \in pos : m.region_start <= x /\ x <= m.region_stop

\* A masked region is written whose ends differ from the ends of the
\* non-coding region it comes from.
C10_Witness ==
    /\ pc = "done"
    /\ \E m \in Range(regions_to_mask_df) : \E k \in RetainedKeys :
           /\ k.Chr = m.Chr
           /\ m.region_start = Retained(k)[1].Pos
           /\ m.region_start # k.Start /\ m.region_stop # k.Stop
           /\ m.region_start < m.region_stop

\* C11: the rows of the final table come chromosome by chromosome in
\* natural order (chr2 before chr10), and the rows of one chromosome in
\* ascending order of region_start.
C11_NaturalOrder ==
    RegionsToMaskRan =>
        \A i, j \in 1..Len(regions_to_mask_df) :
            i < j =>
                LET a == regions_to_mask_df[i]
                    b == regions_to_mask_df[j]
                IN  \/ a.Chr = Chr2 /\ b.Chr = Chr10
                    \/ a.Chr = b.Chr /\ a.region_start <= b.region_start

\* Both chromosomes have two rows each, and the grouping by (Start, Stop,
\* Chr) had a chr10 group first.
C11_Witness ==
    /\ pc = "done"
    /\ Len(regions_to_mask_df) = 4
    /\ \E i, j \in 1..4 : /\ i # j
                           /\ regions_to_mask_df[i].Chr = Chr2
                           /\ regions_to_mask_df[j].Chr = Chr2
    /\ regions_to_mask_df[4].Chr = Chr10
    /\ GroupKeys(filtered_probes_by_distance)[1].Chr = Chr10

CodingRan == pc \notin {"get_genome_file", "get_coding_regions_bed"}

\* The annotation records whose category contains the text pat, start and
\* stop exchanged on strand "-".
RecordsOfCategory(pat) ==
    {SwapNegativeStrand(r) : r \in {q \in genes_aed : StrContains(q.category, pat)}}

\* The record lies within a condensed interval of its chromosome.
Covered(r) ==
    \E i \in 1..Len(coding_regions_bed) :
        /\ coding_regions_bed[i].Chr = r.Chr
        /\ coding_regions_bed[i].Start <= r.Start
        /\ r.Stop <= coding_regions_bed[i].Stop

\* Every end of every condensed interval is the end of one of the records.
BoundsFrom(recs) ==
    \A i \in 1..Len(coding_regions_bed) :
        /\ \E r \in recs : r.Chr = coding_regions_bed[i].Chr
                            /\ r.Start = coding_regions_bed[i].Start
        /\ \E r \in recs : r.Chr = coding_regions_bed[i].Chr
                            /\ r.Stop = coding_regions_bed[i].Stop

\* C13, as claimed: the records whose category contains "coding" are the
\* ones the condensed intervals are made of (each lies within one, and no
\* other record sets an end of one), and the stage raises nothing.
C13_CategoryContainsCoding ==
    CodingRan =>
        /\ \A r \in RecordsOfCategory(<<"c", "o", "d", "i", "n", "g">>) : Covered(r)
        /\ BoundsFrom(RecordsOfCategory(<<"c", "o", "d", "i", "n", "g">>))
        /\ raised = <<>> \/ raised[1] # "get_coding_regions_bed"

\* C13, amended: the records whose category contains "refseq/coding" are
\* the ones the condensed intervals are made of (each lies within one, and
\* no other record sets an end of one), and the stage raises nothing.
C13_CategoryContainsRefseqCoding ==
    CodingRan =>
        /\ \A r \in RecordsOfCategory(RefseqCoding) : Covered(r)
        /\ BoundsFrom(RecordsOfCategory(RefseqCoding))
        /\ raised = <<>> \/ raised[1] # "get_coding_regions_bed"

\* A record of category "refseq/noncoding" reaches outside every condensed
\* interval of its chromosome.
C13_Witness ==
    /\ CodingRan
    /\ coding_regions_bed # <<>>
    /\ \E r \in genes_aed :
           /\ r.category = RefseqNoncoding
           /\ \A i \in 1..Len(coding_regions_bed) :
                  coding_regions_bed[i].Chr = r.Chr =>
                      \/ Min(r.Start, r.Stop) < coding_regions_bed[i].Start
                      \/ Max(r.Start, r.Stop) > coding_regions_bed[i].Stop

\* Per (gene, chromosome) pair of the given records: the gene, the
\* chromosome, the smallest start and the largest stop.
CondensedFrom(recs) ==
    {<<r.name, r.Chr,
       SetMin({q.Start : q \in {x \in recs : x.name = r.name /\ x.Chr = r.Chr}}),
       SetMax({q.Stop : q \in {x \in recs : x.name = r.name /\ x.Chr = r.Chr}})>> :
        r \in recs}

\* C14: the condensed table holds, for every (gene, chromosome) pair with a
\* coding record, one row with the smallest start and the largest stop of
\* the pair's coding records after the strand swap, and no other row.
C14_OneIntervalPerGeneAndChromosome ==
    CodingRan =>
        LET expected == CondensedFrom(RecordsOfCategory(RefseqCoding))
        IN  /\ Len(coding_regions_bed) = Cardinality(expected)
            /\ \A t \in expected :
                   Cardinality({i \in 1..Len(coding_regions_bed) :
                                   coding_regions_bed[i] =
                                       [Chr |-> t[2], Start |-> t[3], Stop |-> t[4]]})
                   = Cardinality({u \in expected :
                                     <<u[2], u[3], u[4]>> = <<t[2], t[3], t[4]>>})

\* Every coding record after the strand swap, and every condensed interval,
\* has its start before its stop.
StartBeforeStop ==
    /\ \A r \in RecordsOfCategory(RefseqCoding) : r.Start < r.Stop
    /\ \A i \in 1..Len(coding_regions_bed) :
           coding_regions_bed[i].Start < coding_regions_bed[i].Stop

\* The coding records are stored with directional coordinates: start
\* before stop on strand "+", stop before start on strand "-".
DirectionalCoordinates ==
    \A r \in genes_aed :
        StrContains(r.category, RefseqCoding) =>
            IF r.strand = "-" THEN r.Stop < r.Start ELSE r.Start < r.Stop

\* C15, as claimed: whatever the annotation table, after the strand swap
\* every coding record and every condensed interval has start < stop.
C15_StartBeforeStopAlways == CodingRan => StartBeforeStop

\* C15, amended: for an annotation table whose coding records are stored
\* with directional coordinates, after the strand swap every coding record
\* and every condensed interval has start < stop.
C15_StartBeforeStopIfDirectional ==
    (CodingRan /\ DirectionalCoordinates) => StartBeforeStop

\* A coding record of strand "-" was stored with its stop before its start.
C15_Witness ==
    /\ CodingRan
    /\ DirectionalCoordinates
    /\ coding_regions_bed # <<>>
    /\ \E r \in genes_aed :
           r.strand = "-" /\ r.category = RefseqCoding /\ r.Stop < r.Start

\* The rows of the non-coding table on one chromosome, in table order.
RegionsOn(chr) == SelectSeq(noncoding_regions_df, LAMBDA r : r.Chr = chr)

\* C16: for every chromosome of the genome file, if no coding interval lies
\* on it the non-coding table holds exactly the row [0, length) for it, and
\* if the coding intervals cover all of [0, length) it holds no row for it.
C16_EveryChromosomeCovered ==
    ComplementRan =>
        \A g \in Range(grch38_genome_file) :
            /\ (\A iv \in CodingIntervals : iv.Chr # g.Chr) =>
                   RegionsOn(g.Chr) = <<[Chr |-> g.Chr, Start |-> 0, Stop |-> g.Len]>>
            /\ (\A p \in 0..(g.Len - 1) : InCoding(g.Chr, p)) =>
                   RegionsOn(g.Chr) = <<>>

\* One chromosome is coding from end to end, another has no coding
\* interval, and the stage has handed its table on.
C16_Witness ==
    /\ pc = "get_noncoding_probes"
    /\ \E g \in Range(grch38_genome_file) :
           /\ \A p \in 0..(g.Len - 1) : InCoding(g.Chr, p)
           /\ RegionsOn(g.Chr) = <<>>
    /\ \E g \in Range(grch38_genome_file) :
           /\ \A iv \in CodingIntervals : iv.Chr # g.Chr
           /\ RegionsOn(g.Chr) = <<[Chr |-> g.Chr, Start |-> 0, Stop |-> g.Len]>>

\* The probe row lies, by the test of the join, in two rows of the
\* non-coding table.
MatchesSeveral(p) ==
    \E i, j \in 1..Len(noncoding_regions_df) :
        /\ i # j
        /\ \A k \in {i, j} :
               /\ noncoding_regions_df[k].Chr = p.Chr
               /\ noncoding_regions_df[k].Start <= p.Pos
               /\ p.Pos <= noncoding_regions_df[k].Stop

C20_NonPositiveMarginRejected ==
    num_probes <= 0 =>
        /\ pc = "get_genome_file"
        /\ files = {}
        /\ probes_to_mask_bed = <<>>

\* The length of a chromosome in the genome file.
ChrLen(chr) == (CHOOSE g \in Range(grch38_genome_file) : g.Chr = chr).Len

\* The probe assignment and the final table a run with the probe table t
\* would have, the other inputs as they are.
AssignmentOf(t) ==
    match_probes_to_regions(
        ReadNoncodingProbes(BedtoolsIntersect(t, noncoding_regions_df)),
        noncoding_regions_df)

MaskedOf(t) ==
    RegionsToMask(remove_probes_by_distance(
                      remove_regions(AssignmentOf(t), num_probes), num_probes))

\* C21: a probe table that differs from the one read only in the stop of a
\* row gives the same probe assignment and the same masked regions.
C21_StopIgnored ==
    RegionsToMaskRan =>
        \A i \in 1..Len(probes_bed) :
            \A stop \in (probes_bed[i].Start + 1)..
                         Min(probes_bed[i].Start + MaxProbeLen, ChrLen(probes_bed[i].Chr)) :
                LET t == [probes_bed EXCEPT ![i].Stop = stop]
                IN  /\ AssignmentOf(t) = probes_within_regions
                    /\ MaskedOf(t) = regions_to_mask_df

\* The three checks of arg_parse, on what the paths name.
PathsChecked ==
    /\ paths.outdir = "dir"
    /\ paths.genes_aed # "missing"
    /\ paths.probes_bed # "missing"

\* C22: a stage of GenerateBed has started only if the output directory is
\* an existing directory and the annotation and probe paths exist; if one
\* of them is not so, no stage ever starts, no file is written, and the
\* process leaves arg_parse with SystemExit (status 2).
C22_PipelineOnlyAfterChecks ==
    /\ (pc # "arg_parse" /\ raised # <<"arg_parse", "SystemExit">>) => PathsChecked
    /\ ~PathsChecked =>
           /\ pc \in {"arg_parse", "failed"}
           /\ pc = "failed" => raised = <<"arg_parse", "SystemExit">>
           /\ files = {}
           /\ probes_to_mask_bed = <<>>

\* The output directory argument names a file, and the process has left.
C22_Witness ==
    /\ pc = "failed"
    /\ raised = <<"arg_parse", "SystemExit">>
    /\ paths = [outdir |-> "file", genes_aed |-> "file", probes_bed |-> "file"]

\* The rows of coding_regions_bed_sorted.bed are in ascending order of
\* (rank of the chromosome, start, stop).
CodingBedOrderedBy(rank(_)) ==
    \A i, j \in 1..Len(coding_regions_bed_sorted) :
        i < j =>
            LET a == coding_regions_bed_sorted[i]
                b == coding_regions_bed_sorted[j]
            IN  \/ rank(a.Chr) < rank(b.Chr)
                \/ /\ a.Chr = b.Chr
                   /\ \/ a.Start < b.Start
                      \/ a.Start = b.Start /\ a.Stop <= b.Stop

\* C23 as stated: the condensed coding intervals handed to complementation
\* are sorted by chromosome in the order of strings (chr10 before chr2),
\* then by start, then by stop.
C23_SortedLexical == CodingRan => CodingBedOrderedBy(ChrLexRank)

\* C23: the condensed coding intervals handed to complementation are sorted
\* by chromosome in natural (version) order, the number in the name
\* counting as a number (chr2 before chr10), then by start, then by stop.
C23_SortedNatural == CodingRan => CodingBedOrderedBy(ChrNaturalRank)

\* The condensed table had a chr10 row before a chr2 row, and the sorted
\* file has the chr2 row first.
C23_Witness ==
    /\ CodingRan
    /\ Len(coding_regions_bed) >= 2
    /\ coding_regions_bed[1].Chr = Chr10
    /\ coding_regions_bed_sorted[1].Chr = Chr2
    /\ \E i \in 2..Len(coding_regions_bed_sorted) : coding_regions_bed_sorted[i].Chr = Chr10

\* C24: after probe assignment the probes of each non-coding region are in
\* ascending order of position, whatever the order of the probe table, and
\* what trimming retains of a region is a slice of that ordered list: a
\* run of consecutive rows of it.
C24_AscendingAndSliced ==
    RegionsToMaskRan =>
        \A k \in AssignedKeys :
            /\ \A i, j \in 1..Len(Assigned(k)) :
                   i < j => Assigned(k)[i].Pos <= Assigned(k)[j].Pos
            /\ \E a \in 1..(Len(Assigned(k)) + 1), b \in 0..Len(Assigned(k)) :
                   Retained(k) = SubSeq(Assigned(k), a, b)

\* The probe table is in descending order of position, and of a region
\* with at least three probes trimming kept some and dropped some.
C24_Witness ==
    /\ pc = "done"
    /\ Len(probes_bed) >= 3
    /\ \A i \in 1..(Len(probes_bed) - 1) :
           /\ probes_bed[i].Chr = probes_bed[i + 1].Chr
           /\ probes_bed[i].Start > probes_bed[i + 1].Start
    /\ \E k \in AssignedKeys :
           /\ Len(Assigned(k)) >= 3
           /\ Retained(k) # <<>>
           /\ Len(Retained(k)) < Len(Assigned(k))

\* The masked regions, and the coding intervals: the condensed ones and the
\* annotation records they were condensed from.
Masked == Range(regions_to_mask_df)
AllCoding ==
    CodingIntervals \cup
        {[Chr |-> r.Chr, Start |-> r.Start, Stop |-> r.Stop] :
            r \in RecordsOfCategory(RefseqCoding)}

\* C26: every masked region, from region_start through region_stop, lies
\* inside exactly one non-coding region (Start <= region_start <=
\* region_stop <= Stop); two masked regions of one chromosome share no
\* position; and no masked region holds a position of a coding interval.
C26_MaskedInsideOneRegion ==
    RegionsToMaskRan =>
        /\ \A m \in Masked :
               Cardinality({r \in Regions :
                   /\ r.Chr = m.Chr
                   /\ r.Start <= m.region_start
                   /\ m.region_start <= m.region_stop
                   /\ m.region_stop <= r.Stop}) = 1
        /\ \A i, j \in 1..Len(regions_to_mask_df) :
               LET a == regions_to_mask_df[i]
                   b == regions_to_mask_df[j]
               IN  (i # j /\ a.Chr = b.Chr) =>
                       (a.region_stop < b.region_start \/ b.region_stop < a.region_start)
        /\ \A m \in Masked : \A iv \in AllCoding :
               iv.Chr = m.Chr =>
                   (m.region_stop < iv.Start \/ iv.Stop <= m.region_start)

\* Two masked regions on the chromosome of a coding interval, one of them
\* beginning after the start of its non-coding region.
C26_Witness ==
    /\ pc = "done"
    /\ \E a, b \in Masked : \E iv \in AllCoding : \E r \in Regions :
           /\ a # b
           /\ a.Chr = b.Chr /\ iv.Chr = a.Chr /\ r.Chr = a.Chr
           /\ r.Start < a.region_start /\ a.region_stop < r.Stop

\* The final table a run with the margin n would have, the inputs as they
\* are.
MaskedWithMargin(n) ==
    RegionsToMask(remove_probes_by_distance(
                      remove_regions(probes_within_regions, n), n))

\* Row m of a final table covers the position of probe row p.
Covers(m, p) == m.Chr = p.Chr /\ m.region_start <= p.Pos /\ p.Pos <= m.region_stop

\* C27: for the same annotation and probes and margins 1 <= N < M, every
\* probe position that a masked region of the run with margin M covers is
\* covered by a masked region of the run with margin N.
C27_MonotoneInMargin ==
    RegionsToMaskRan =>
        \A N \in 1..(num_probes - 1) :
            \A p \in Range(noncoding_probes_df) :
                (\E m \in Masked : Covers(m, p)) =>
                    (\E m \in Range(MaskedWithMargin(N)) : Covers(m, p))

\* C28: the intermediate files are removed once the masked regions are
\* computed and before the output is written: when the output is to be
\* written or is written, none of the five intermediate files is left, and
\* at the end of a run that succeeded probes_to_mask.bed is the only file
\* of the run; a run in which a removal failed never writes the output.
C28_CleanupBeforeOutput ==
    /\ pc = "cleanup_intermediate_files" =>
           /\ regions_to_mask_df = MaskedWithMargin(num_probes)
           /\ "probes_to_mask.bed" \notin files
    /\ pc \in {"write_to_final_csv", "done"} =>
           /\ "grch38.genome" \notin files
           /\ "coding_regions_bed.bed" \notin files
           /\ "coding_regions_bed_sorted.bed" \notin files
           /\ "noncoding_regions_bed.bed" \notin files
           /\ "non_coding_probes.bed" \notin files
    /\ pc = "done" => files = {"probes_to_mask.bed"}
    /\ (raised # <<>> /\ raised[1] = "cleanup_intermediate_files") =>
           /\ pc = "failed"
           /\ "probes_to_mask.bed" \notin files
           /\ probes_to_mask_bed = <<>>

\* The removal of the third file failed: the two before it are gone, the
\* others are left, masked regions were computed and no output is written.
C28_Witness ==
    /\ pc = "failed"
    /\ raised = <<"cleanup_intermediate_files", "OSError">>
    /\ files = {"noncoding_regions_bed.bed", "non_coding_probes.bed", "grch38.genome"}
    /\ regions_to_mask_df # <<>>
====
